---- MODULE Spec2Model ----
(***************************************************************************)
(* A model of marine.py: the zone loop, get_zone_forecast and the field    *)
(* extractors.  Python strings are TLA+ strings, read one character at a   *)
(* time with SubSeq; every regular expression of the source is written     *)
(* out as the matcher it denotes.                                          *)
(***************************************************************************)
EXTENDS Integers, Sequences, FiniteSets, TLC

(***************************************************************************)
(* Python str primitives                                                   *)
(***************************************************************************)
Ch(s, i) == SubSeq(s, i, i)

UpperAlpha == "ABCDEFGHIJKLMNOPQRSTUVWXYZ"

LowerAlpha == "abcdefghijklmnopqrstuvwxyz"

DigitChars == {"0", "1", "2", "3", "4", "5", "6", "7", "8", "9"}

\* \s of the re module (ASCII part)
Whitespace == {" ", "\t", "\n", "\r", "\f"}

\* \w of the re module (ASCII part)
WordChars ==
    {Ch(UpperAlpha, i) : i \in 1..26} \cup {Ch(LowerAlpha, i) : i \in 1..26}
        \cup DigitChars \cup {"_"}

ToLowerMap ==
    [c \in {Ch(UpperAlpha, i) : i \in 1..26} |->
        Ch(LowerAlpha, CHOOSE i \in 1..26 : Ch(UpperAlpha, i) = c)]

ToUpperMap ==
    [c \in {Ch(LowerAlpha, i) : i \in 1..26} |->
        Ch(UpperAlpha, CHOOSE i \in 1..26 : Ch(LowerAlpha, i) = c)]

LowerCh(c) == IF c \in DOMAIN ToLowerMap THEN ToLowerMap[c] ELSE c

UpperCh(c) == IF c \in DOMAIN ToUpperMap THEN ToUpperMap[c] ELSE c

\* the least j of lo..hi with P(j), 0 when there is none
First(lo, hi, P(_)) ==
    IF \E j \in lo..hi : P(j)
    THEN CHOOSE j \in lo..hi : P(j) /\ \A k \in lo..(j - 1) : ~P(k)
    ELSE 0

\* the greatest j of lo..hi with P(j), 0 when there is none
Last(lo, hi, P(_)) ==
    IF \E j \in lo..hi : P(j)
    THEN CHOOSE j \in lo..hi : P(j) /\ \A k \in (j + 1)..hi : ~P(k)
    ELSE 0

RECURSIVE LowerRange(_, _, _)
\* the characters lo..hi of s in lower case, halving the range
LowerRange(s, lo, hi) ==
    IF lo > hi THEN ""
    ELSE IF lo = hi THEN LowerCh(Ch(s, lo))
    ELSE LowerRange(s, lo, (lo + hi) \div 2)
             \o LowerRange(s, (lo + hi) \div 2 + 1, hi)

\* str.lower()
lower(s) == LowerRange(s, 1, Len(s))

RECURSIVE UpperRange(_, _, _)
UpperRange(s, lo, hi) ==
    IF lo > hi THEN ""
    ELSE IF lo = hi THEN UpperCh(Ch(s, lo))
    ELSE UpperRange(s, lo, (lo + hi) \div 2)
             \o UpperRange(s, (lo + hi) \div 2 + 1, hi)

\* str.upper()
upper(s) == UpperRange(s, 1, Len(s))

\* str.capitalize()
capitalize(s) ==
    IF s = "" THEN "" ELSE UpperCh(Ch(s, 1)) \o lower(SubSeq(s, 2, Len(s)))

\* s[i-1:].startswith(p), 1-based
StartsWithAt(s, i, p) ==
    /\ i >= 1
    /\ i + Len(p) - 1 <= Len(s)
    /\ SubSeq(s, i, i + Len(p) - 1) = p

\* str.startswith
startswith(s, p) == StartsWithAt(s, 1, p)

\* the same, ignoring letter case (a literal under re.I)
StartsWithAtI(s, i, p) ==
    /\ i >= 1
    /\ i + Len(p) - 1 <= Len(s)
    /\ lower(SubSeq(s, i, i + Len(p) - 1)) = lower(p)

\* 1-based str.find(p, i-1) + 1: the first position >= i where p occurs, 0 if none
FindFrom(s, p, i) ==
    First(i, Len(s) - Len(p) + 1, LAMBDA j : StartsWithAt(s, j, p))

\* p in s
Contains(s, p) == FindFrom(s, p, 1) # 0

\* the position after a greedy run of characters of set C starting at i
SkipSet(s, i, C) ==
    IF i > Len(s) THEN i
    ELSE LET j == First(i, Len(s), LAMBDA k : Ch(s, k) \notin C)
         IN  IF j = 0 THEN Len(s) + 1 ELSE j

\* the position after a greedy \s* starting at i
SkipWs(s, i) == SkipSet(s, i, Whitespace)

\* the last position <= i that is not whitespace (0 if none)
SkipWsBack(s, i) == Last(1, i, LAMBDA k : Ch(s, k) \notin Whitespace)

\* str.strip()
strip(s) == SubSeq(s, SkipWs(s, 1), SkipWsBack(s, Len(s)))

RECURSIVE CollapseRange(_, _, _)
\* the characters lo..hi of s, one blank where a whitespace run starts
CollapseRange(s, lo, hi) ==
    IF lo > hi THEN ""
    ELSE IF lo = hi
         THEN (IF Ch(s, lo) \notin Whitespace THEN Ch(s, lo)
               ELSE IF lo > 1 /\ Ch(s, lo - 1) \in Whitespace THEN ""
               ELSE " ")
    ELSE CollapseRange(s, lo, (lo + hi) \div 2)
             \o CollapseRange(s, (lo + hi) \div 2 + 1, hi)

\* re.sub(r"\s+", " ", s)
CollapseWs(s) == CollapseRange(s, 1, Len(s))

RECURSIVE SplitFrom(_, _)
SplitFrom(s, i) ==
    IF i > Len(s) THEN <<>>
    ELSE LET j == FindFrom(s, "\n", i)
         IN  IF j = 0 THEN <<SubSeq(s, i, Len(s))>>
             ELSE <<SubSeq(s, i, j - 1)>> \o SplitFrom(s, j + 1)

\* str.splitlines() on text whose only line break is "\n"
splitlines(s) == SplitFrom(s, 1)

\* \b at position i (between s[i-1] and s[i], 1-based)
WordBoundary(s, i) ==
    LET before == i > 1 /\ i - 1 <= Len(s) /\ Ch(s, i - 1) \in WordChars
        after == i >= 1 /\ i <= Len(s) /\ Ch(s, i) \in WordChars
    IN  before # after

RECURSIVE JoinFrom(_, _, _)
JoinFrom(seq, sep, i) ==
    IF i > Len(seq) THEN ""
    ELSE IF i = Len(seq) THEN seq[i]
    ELSE seq[i] \o sep \o JoinFrom(seq, sep, i + 1)

\* sep.join(seq)
join(sep, seq) == JoinFrom(seq, sep, 1)

(***************************************************************************)
(* CONFIG                                                                  *)
(***************************************************************************)
\* the keys of ZONES in insertion order
ZoneOrder == <<"AMZ651", "GMZ044">>

ZONES == [AMZ651 |-> "miami", GMZ044 |-> "keys"]

(***************************************************************************)
(* get_zone_forecast: the zone block                                       *)
(***************************************************************************)
RECURSIVE StripTagsFrom(_, _)
\* one step per tag: the text up to the next "<" that a ">" follows
StripTagsFrom(s, i) ==
    LET a == First(i, Len(s), LAMBDA j : Ch(s, j) = "<" /\ FindFrom(s, ">", j + 1) # 0)
    IN  IF a = 0 THEN SubSeq(s, i, Len(s))
        ELSE SubSeq(s, i, a - 1) \o StripTagsFrom(s, FindFrom(s, ">", a + 1) + 1)

\* re.sub(r"<.*?>", "", response.text, flags=re.DOTALL)
StripTags(s) == StripTagsFrom(s, 1)

\* the spellings the head of pattern_zone accepts for a zone
ZoneHeaders(zone_id) ==
    IF zone_id = "GMZ044" THEN {"GMZ042-044", "GMZ042>044", "GMZ044"}
    ELSE {zone_id}

\* the lazy (.*?) stops at the first position where "\n$" or the end follows
BlockEnd(s, g) ==
    LET e == First(g, Len(s), LAMBDA j : StartsWithAt(s, j, "\n$"))
    IN  IF e = 0 THEN Len(s) + 1 ELSE e

\* the line breaks that end a header line starting at p
HeaderLineEnds(zone_id, s, p) ==
    {FindFrom(s, "\n", p + Len(h)) :
        h \in {x \in ZoneHeaders(zone_id) : StartsWithAt(s, p, x)}} \ {0}

\* pattern_zone.search(text)
ZoneSearch(zone_id, s) ==
    LET p == First(1, Len(s), LAMBDA j : HeaderLineEnds(zone_id, s, j) # {})
    IN  IF p = 0 THEN [found |-> FALSE, group1 |-> ""]
        ELSE LET g == (CHOOSE n \in HeaderLineEnds(zone_id, s, p) : TRUE) + 1
             IN  [found |-> TRUE, group1 |-> SubSeq(s, g, BlockEnd(s, g) - 1)]

(***************************************************************************)
(* get_zone_forecast: alert detection                                      *)
(***************************************************************************)
CautionFlag(text_lower) == IF Contains(text_lower, "caution") THEN 1 ELSE 0

AdvisoryFlag(text_lower) == IF Contains(text_lower, "advisory") THEN 1 ELSE 0

BothFlag(text_lower) ==
    IF Contains(text_lower, "caution") /\ Contains(text_lower, "advisory")
    THEN 1 ELSE 0

\* the no-alert test looking at the caution flag only
NoAlertFlag_CautionOnly(caution, advisory) == IF caution = 0 THEN 1 ELSE 0

NoAlertFlag(caution, advisory) == IF caution = 0 /\ advisory = 0 THEN 1 ELSE 0

\* re.search(r"\.\.\.(.*?)\.\.\.", zone_text, re.DOTALL), group(1).strip()
AdvisoryText(zone_text) ==
    LET text_lower == lower(zone_text)
        a == FindFrom(zone_text, "...", 1)
        b == IF a = 0 THEN 0 ELSE FindFrom(zone_text, "...", a + 3)
    IN  IF ~(Contains(text_lower, "caution") \/ Contains(text_lower, "advisory"))
        THEN ""
        ELSE IF b = 0 THEN ""
        ELSE strip(SubSeq(zone_text, a + 3, b - 1))

(***************************************************************************)
(* datetime: the clock reading is [year, month, day, hour]                 *)
(***************************************************************************)
IsLeap(y) == y % 4 = 0 /\ (y % 100 # 0 \/ y % 400 = 0)

DaysInMonth(y, m) ==
    IF m = 2 THEN (IF IsLeap(y) THEN 29 ELSE 28)
    ELSE IF m \in {4, 6, 9, 11} THEN 30 ELSE 31

RECURSIVE DaysBeforeMonth(_, _)
DaysBeforeMonth(y, m) ==
    IF m = 1 THEN 0 ELSE DaysBeforeMonth(y, m - 1) + DaysInMonth(y, m - 1)

DaysBeforeYear(y) ==
    (y - 1) * 365 + (y - 1) \div 4 - (y - 1) \div 100 + (y - 1) \div 400

\* date.toordinal()
toordinal(d) == DaysBeforeYear(d.year) + DaysBeforeMonth(d.year, d.month) + d.day

\* date.weekday(): Monday is 0
weekday(d) == (toordinal(d) + 6) % 7

\* now + timedelta(days=1): the date of ordinal + 1, the hour kept
PlusOneDay(d) ==
    IF d.day < DaysInMonth(d.year, d.month) THEN [d EXCEPT !.day = d.day + 1]
    ELSE IF d.month < 12 THEN [d EXCEPT !.month = d.month + 1, !.day = 1]
    ELSE [d EXCEPT !.year = d.year + 1, !.month = 1, !.day = 1]

\* strftime("%a") and strftime("%A") by weekday()
DayAbbr == <<"Mon", "Tue", "Wed", "Thu", "Fri", "Sat", "Sun">>

DayName ==
    <<"Monday", "Tuesday", "Wednesday", "Thursday", "Friday", "Saturday",
      "Sunday">>

strftime_a(d) == DayAbbr[weekday(d) + 1]

strftime_A(d) == DayName[weekday(d) + 1]

(***************************************************************************)
(* get_zone_forecast: the period                                           *)
(***************************************************************************)
\* the tag with noon itself still counted as morning
TargetDay_NoonIsMorning(t) == IF t.hour <= 12 THEN "Today" ELSE "Tomorrow"

TargetDay(t) == IF t.hour < 12 THEN "Today" ELSE "Tomorrow"

DayLabels(t) ==
    IF t.hour < 12
    THEN <<"TODAY", upper(strftime_a(t)), upper(strftime_A(t))>>
    ELSE <<upper(strftime_a(PlusOneDay(t))), upper(strftime_A(PlusOneDay(t)))>>

\* any(line_clean.startswith(f".{label}") for label in day_labels)
IsDayHeader(line_clean, labels) ==
    \E k \in 1..Len(labels) : startswith(line_clean, "." \o labels[k])

\* the position after a greedy \.* starting at i
SkipDots(s, i) == SkipSet(s, i, {"."})

\* re.sub(rf"^\.{label}\.*", "", line_clean, flags=re.I).strip()
StripLabel(line_clean, label) ==
    IF StartsWithAtI(line_clean, 1, "." \o label)
    THEN strip(SubSeq(line_clean, SkipDots(line_clean, Len(label) + 2),
                      Len(line_clean)))
    ELSE strip(line_clean)

RECURSIVE StripLabelsFrom(_, _, _)
StripLabelsFrom(line_clean, labels, k) ==
    IF k > Len(labels) THEN line_clean
    ELSE StripLabelsFrom(StripLabel(line_clean, labels[k]), labels, k + 1)

\* for label in day_labels: line_clean = re.sub(...).strip()
StripLabels(line_clean, labels) == StripLabelsFrom(line_clean, labels, 1)

\* the stop test without its "not": only the target day's own headers stop
ClosesCapture_OwnHeader(cap, line_clean, labels) ==
    cap /\ startswith(line_clean, ".") /\ IsDayHeader(line_clean, labels)

\* the stop test of the scan
ClosesCapture(cap, line_clean, labels) ==
    cap /\ startswith(line_clean, ".") /\ ~IsDayHeader(line_clean, labels)

RECURSIVE CollapseEach(_, _)
CollapseEach(ls, i) ==
    IF i > Len(ls) THEN <<>> ELSE <<CollapseWs(ls[i])>> \o CollapseEach(ls, i + 1)

\* " ".join([re.sub(r"\s+", " ", l) for l in forecast_lines])
FullText(ls) == join(" ", CollapseEach(ls, 1))

CutoffWords ==
    {"TONIGHT", "NIGHT", "MON", "TUE", "WED", "THU", "FRI", "SAT", "SUN",
     "MONDAY", "TUESDAY", "WEDNESDAY", "THURSDAY", "FRIDAY", "SATURDAY",
     "SUNDAY"}

\* cutoff_pattern.search(full_text).start(), 1-based; 0 when there is no match
CutoffStart(s) ==
    First(1, Len(s),
        LAMBDA i : /\ WordBoundary(s, i)
                   /\ \E w \in CutoffWords :
                        StartsWithAtI(s, i, w) /\ WordBoundary(s, i + Len(w)))

ForecastText(full_text) ==
    LET c == CutoffStart(full_text)
    IN  IF c # 0 THEN strip(SubSeq(full_text, 1, c - 1)) ELSE strip(full_text)

(***************************************************************************)
(* normalize_wind                                                          *)
(***************************************************************************)
\* DIRECTION_MAP in insertion order
DIRECTION_MAP ==
    <<<<"north", "N">>, <<"northeast", "NE">>, <<"east", "E">>,
      <<"southeast", "SE">>, <<"south", "S">>, <<"southwest", "SW">>,
      <<"west", "W">>, <<"northwest", "NW">>>>

\* the candidates that match as whole words at i
WordHits(s, cands, i) ==
    {c \in cands : /\ WordBoundary(s, i)
                   /\ StartsWithAt(s, i, c)
                   /\ WordBoundary(s, i + Len(c))}

RECURSIVE SubWordsFrom(_, _, _, _)
\* one step per match, left to right
SubWordsFrom(s, cands, repl, i) ==
    LET a == First(i, Len(s), LAMBDA j : WordHits(s, cands, j) # {})
    IN  IF a = 0 THEN SubSeq(s, i, Len(s))
        ELSE SubSeq(s, i, a - 1) \o repl
                 \o SubWordsFrom(s, cands, repl,
                                 a + Len(CHOOSE c \in WordHits(s, cands, a) : TRUE))

\* re.sub(r"\b(c1|c2|...)\b", repl, s): the closing \b leaves one candidate
SubWords(s, cands, repl) == SubWordsFrom(s, cands, repl, 1)

RECURSIVE SubDirections(_, _)
\* for full, abbr in DIRECTION_MAP.items(): text = re.sub(rf"\b{full}\b", abbr, text)
SubDirections(s, k) ==
    IF k > Len(DIRECTION_MAP) THEN s
    ELSE SubDirections(SubWords(s, {DIRECTION_MAP[k][1]}, DIRECTION_MAP[k][2]),
                       k + 1)

\* \s+to\s+ matches at i
SpacedToAt(s, i) ==
    /\ SkipWs(s, i) > i
    /\ StartsWithAt(s, SkipWs(s, i), "to")
    /\ SkipWs(s, SkipWs(s, i) + 2) > SkipWs(s, i) + 2

RECURSIVE SubSpacedTo(_, _)
\* re.sub(r"\s+to\s+", "-", s), one step per match
SubSpacedTo(s, i) ==
    LET a == First(i, Len(s), LAMBDA j : SpacedToAt(s, j))
    IN  IF a = 0 THEN SubSeq(s, i, Len(s))
        ELSE SubSeq(s, i, a - 1) \o "-"
                 \o SubSpacedTo(s, SkipWs(s, SkipWs(s, a) + 2))

normalize_wind(text) ==
    IF text = "" THEN ""
    ELSE LET t1 == SubDirections(lower(text), 1)
             t2 == SubWords(t1, {"winds", "wind"}, "")
             t3 == SubSpacedTo(t2, 1)
             t4 == strip(CollapseWs(t3))
         IN  SubWords(t4, {"knots", "knot", "kt"}, "kts")

(***************************************************************************)
(* extract_wind_field                                                      *)
(*                                                                         *)
(* A pattern is read left to right as the set of positions each of its     *)
(* parts can end at; an optional part adds its ends to those before it.    *)
(***************************************************************************)
WindDirections ==
    {"north", "northeast", "east", "southeast", "south", "southwest", "west",
     "northwest", "N", "NE", "E", "SE", "S", "SW", "W", "NW"}

WindUnits == {"kt", "kts", "knots"}

MaxOf(E) == CHOOSE e \in E : \A f \in E : f <= e

\* the positions after \s* read at a position of P
SkipWsAll(s, P) == {SkipWs(s, p) : p \in P}

\* the positions after one direction word read at a position of P
AfterDirection(s, P) ==
    {pd[1] + Len(pd[2]) :
        pd \in {x \in P \X WindDirections : StartsWithAtI(s, x[1], x[2])}}

\* the positions after \s*lit read at a position of P
AfterLit(s, P, lit) ==
    {q + Len(lit) : q \in {r \in SkipWsAll(s, P) : StartsWithAtI(s, r, lit)}}

\* the positions after \d{1,2} read at a position of P
AfterDigits(s, P) ==
    {q + 1 : q \in {r \in P : r <= Len(s) /\ Ch(s, r) \in DigitChars}}
        \cup {q + 2 : q \in {r \in P : /\ r + 1 <= Len(s)
                                       /\ Ch(s, r) \in DigitChars
                                       /\ Ch(s, r + 1) \in DigitChars}}

\* (?:\s*to\s*DIR)?
AfterDirectionRange(s, D) ==
    D \cup AfterDirection(s, SkipWsAll(s, AfterLit(s, D, "to")))

\* s?
AfterOptionalS(s, W) == W \cup {q + 1 : q \in {r \in W : StartsWithAtI(s, r, "s")}}

\* (?:around\s*|near\s*)?
AfterAroundNear(s, W) ==
    W \cup SkipWsAll(s, AfterLit(s, W, "around") \cup AfterLit(s, W, "near"))

\* (?:\s*(?:to|-)\s*\d{1,2})?
AfterSpeedRange(s, N) ==
    N \cup AfterDigits(s, SkipWsAll(s, AfterLit(s, N, "to") \cup AfterLit(s, N, "-")))

\* the positions of E that \s*(unit) follows
BeforeUnit(s, E, units) ==
    {e \in E : \E u \in units : StartsWithAtI(s, SkipWs(s, e), u)}

\* the end positions of group(1) of the wind pattern matched at i
WindGroupEnds(s, i) ==
    BeforeUnit(s,
        AfterSpeedRange(s,
            AfterDigits(s,
                AfterAroundNear(s,
                    SkipWsAll(s,
                        AfterOptionalS(s,
                            AfterLit(s,
                                AfterDirectionRange(s, AfterDirection(s, {i})),
                                "wind")))))),
        WindUnits)

WindMatch(s, i) ==
    IF i = 0 THEN [found |-> FALSE, group1 |-> ""]
    ELSE [found |-> TRUE, group1 |-> SubSeq(s, i, MaxOf(WindGroupEnds(s, i)) - 1)]

\* the re.search of extract_wind_field
WindSearch(s) ==
    WindMatch(s, First(1, Len(s),
                       LAMBDA j : WordBoundary(s, j) /\ WindGroupEnds(s, j) # {}))

\* the words of {"around", "near"} that match at i under re.I
AroundNearHits(s, i) ==
    {c \in {"around", "near"} : /\ WordBoundary(s, i)
                                /\ StartsWithAtI(s, i, c)
                                /\ WordBoundary(s, i + Len(c))}

RECURSIVE SubAroundNear(_, _)
\* re.sub(r"\b(around|near)\b\s*", "", wind_speed, flags=re.I)
SubAroundNear(s, i) ==
    LET a == First(i, Len(s), LAMBDA j : AroundNearHits(s, j) # {})
    IN  IF a = 0 THEN SubSeq(s, i, Len(s))
        ELSE SubSeq(s, i, a - 1)
                 \o SubAroundNear(s, SkipWs(s, a + Len(CHOOSE c \in AroundNearHits(s, a) : TRUE)))

\* (?:up to\s*)?
AfterOptionalUpTo(s, G) ==
    G \cup {SkipWs(s, q + 5) : q \in {r \in G : StartsWithAtI(s, r, "up to")}}

\* where group(1), the digits, starts for the gust pattern matched at i
GustDigitStarts(s, i) ==
    {p \in AfterOptionalUpTo(s,
               SkipWsAll(s,
                   AfterOptionalS(s, IF StartsWithAtI(s, i, "gust") THEN {i + 4} ELSE {}))) :
        p <= Len(s) /\ Ch(s, p) \in DigitChars}

\* a greedy \d{1,2} at g
DigitsAt(s, g) ==
    IF g + 1 <= Len(s) /\ Ch(s, g + 1) \in DigitChars THEN SubSeq(s, g, g + 1)
    ELSE Ch(s, g)

GustMatch(s, i) ==
    IF i = 0 THEN [found |-> FALSE, group1 |-> ""]
    ELSE [found |-> TRUE,
          group1 |-> DigitsAt(s, CHOOSE p \in GustDigitStarts(s, i) : TRUE)]

\* re.search(r"gusts?\s*(?:up to\s*)?(\d{1,2})\s*(?:kt|kts|knots)?", ..., re.I)
GustSearch(s) ==
    GustMatch(s, First(1, Len(s), LAMBDA j : GustDigitStarts(s, j) # {}))

\* lines 196-198
WithGust(wind_speed, gust_match) ==
    IF gust_match.found THEN wind_speed \o " (" \o gust_match.group1 \o ")"
    ELSE wind_speed

\* lines 186-200
WindField(match, gust_match) ==
    IF ~match.found THEN ""
    ELSE WithGust(SubAroundNear(normalize_wind(match.group1), 1), gust_match) \o " kts"

extract_wind_field(forecast_text) ==
    WindField(WindSearch(forecast_text), GustSearch(forecast_text))

(***************************************************************************)
(* extract_seas_field                                                      *)
(***************************************************************************)
\* the position after a greedy [\d.]* starting at i
SkipNumber(s, i) == SkipSet(s, i, DigitChars \cup {"."})

\* the positions after [\d.]+ read at a position of P
AfterNumber(s, P) == {SkipNumber(s, q) : q \in {r \in P : SkipNumber(s, r) > r}}

\* the positions after \s+ read at a position of P
AfterWs1(s, P) == {SkipWs(s, q) : q \in {r \in P : SkipWs(s, r) > r}}

SeasUnits == {"feet", "ft"}

\* the positions after \s*(?:feet|ft) read at a position of P
AfterUnit(s, P) ==
    {pu[1] + Len(pu[2]) :
        pu \in {x \in SkipWsAll(s, P) \X SeasUnits : StartsWithAtI(s, x[1], x[2])}}

\* (?:around\s+)?
AfterOptionalAround(s, S) ==
    S \cup AfterWs1(s, {q + 6 : q \in {r \in S : StartsWithAtI(s, r, "around")}})

\* (?:\s*(?:to|-)\s*[\d.]+)?
AfterSeaRange(s, N) ==
    N \cup AfterNumber(s, SkipWsAll(s, AfterLit(s, N, "to") \cup AfterLit(s, N, "-")))

\* the end positions of group(1) when it starts at g
SeasGroupEnds(s, g) ==
    {e \in AfterSeaRange(s, AfterNumber(s, {g})) : AfterUnit(s, {e}) # {}}

\* where group(1) starts for the seas pattern matched at i
SeasGroupStarts(s, i) ==
    {g \in AfterOptionalAround(s,
               AfterWs1(s, IF StartsWithAtI(s, i, "seas") THEN {i + 4} ELSE {})) :
        SeasGroupEnds(s, g) # {}}

\* (?:to\s*)?
AfterOptionalTo(s, O) ==
    O \cup {SkipWs(s, q + 2) : q \in {r \in O : StartsWithAtI(s, r, "to")}}

\* where group(2) starts, u being the position after the unit:
\* (?:,\s*occasionally\s*(?:to\s*)?([\d.]+)\s*(?:feet|ft))?
OccasionalStarts(s, u) ==
    {p \in AfterOptionalTo(s,
               SkipWsAll(s,
                   IF StartsWithAt(s, u, ",") THEN AfterLit(s, {u + 1}, "occasionally")
                   ELSE {})) :
        AfterUnit(s, AfterNumber(s, {p})) # {}}

NumberFrom(s, o) == SubSeq(s, o, SkipNumber(s, o) - 1)

\* group(2), "" for None
OccasionalGroup(s, O) == IF O = {} THEN "" ELSE NumberFrom(s, CHOOSE p \in O : TRUE)

SeasGroups(s, g, e) ==
    [found |-> TRUE,
     group1 |-> SubSeq(s, g, e - 1),
     group2 |-> OccasionalGroup(s,
                    OccasionalStarts(s, CHOOSE u \in AfterUnit(s, {e}) : TRUE))]

SeasMatchFrom(s, G) ==
    IF G = {} THEN [found |-> FALSE, group1 |-> "", group2 |-> ""]
    ELSE SeasGroups(s, CHOOSE g \in G : TRUE,
                    MaxOf(SeasGroupEnds(s, CHOOSE g \in G : TRUE)))

\* the seas pattern matched at i
SeasMatchAt(s, i) == SeasMatchFrom(s, SeasGroupStarts(s, i))

SeasMatch(s, i) ==
    IF i = 0 THEN [found |-> FALSE, group1 |-> "", group2 |-> ""]
    ELSE SeasMatchAt(s, i)

\* the re.search of extract_seas_field
SeasSearch(s) ==
    SeasMatch(s, First(1, Len(s), LAMBDA j : SeasGroupStarts(s, j) # {}))

RECURSIVE SubLooseTo(_, _)
\* re.sub(r"\s*to\s*", "-", base_range): no re.I here; one step per match
SubLooseTo(s, i) ==
    LET a == First(i, Len(s), LAMBDA j : StartsWithAt(s, SkipWs(s, j), "to"))
    IN  IF a = 0 THEN SubSeq(s, i, Len(s))
        ELSE SubSeq(s, i, a - 1) \o "-" \o SubLooseTo(s, SkipWs(s, SkipWs(s, a) + 2))

\* re.search(r"\bSeas\s+around\s+", forecast_text, re.I)
HasSeasAround(s) ==
    \E i \in 1..Len(s) :
        /\ WordBoundary(s, i)
        /\ StartsWithAtI(s, i, "seas")
        /\ AfterWs1(s, {q + 6 : q \in {r \in AfterWs1(s, {i + 4}) :
                                          StartsWithAtI(s, r, "around")}}) # {}

\* lines 218-219
WithAround(forecast_text, base_range) ==
    IF HasSeasAround(forecast_text) THEN "around " \o base_range ELSE base_range

\* lines 221-223
WithOccasional(seas_text, occasional) ==
    IF occasional # "" THEN seas_text \o " (" \o occasional \o ")" ELSE seas_text

\* lines 213-226
SeasField(forecast_text, seas_match) ==
    IF seas_match.found
    THEN strip(WithOccasional(
                   WithAround(forecast_text, SubLooseTo(strip(seas_match.group1), 1)),
                   seas_match.group2) \o " ft")
    ELSE ""

extract_seas_field(forecast_text) == SeasField(forecast_text, SeasSearch(forecast_text))

(***************************************************************************)
(* extract_intracoastal                                                    *)
(***************************************************************************)
\* group(2) is a greedy [^.]+: it can start at a position of P that holds a
\* character other than "."; where it cannot, the \s+ before it gives one
\* blank back if it holds two
GiveBack(s, P) ==
    {p \in P : p <= Len(s) /\ Ch(s, p) # "."}
        \cup {q - 1 : q \in {r \in P : /\ ~(r <= Len(s) /\ Ch(s, r) # ".")
                                       /\ Ch(s, r - 2) \in Whitespace}}

\* the positions after (?:will be\s+|are\s+) read at a position of W
AfterVerb(s, W) ==
    AfterWs1(s, {q + 7 : q \in {r \in W : StartsWithAtI(s, r, "will be")}})
        \cup AfterWs1(s, {q + 3 : q \in {r \in W : StartsWithAtI(s, r, "are")}})

OrElse(A, B) == IF A # {} THEN A ELSE B

\* the optional verb is tried first, then the pattern without it
GroupStartFrom(s, W) == OrElse(GiveBack(s, AfterVerb(s, W)), GiveBack(s, W))

\* the positions after (Intracoastal|Nearshore)\s+waters\s+ matched at i
WatersEnds(s, i) ==
    AfterWs1(s,
        AfterLit(s,
            AfterWs1(s, {i + Len(h) : h \in {x \in {"intracoastal", "nearshore"} :
                                                StartsWithAtI(s, i, x)}}),
            "waters"))

\* where group(2) starts for the pattern matched at i
IntracoastalGroupStart(s, i) == GroupStartFrom(s, WatersEnds(s, i))

EndOr(e, n) == IF e = 0 THEN n ELSE e - 1

IntracoastalMatch(s, i) ==
    IF i = 0 THEN [found |-> FALSE, group2 |-> ""]
    ELSE [found |-> TRUE,
          group2 |-> SubSeq(s, CHOOSE p \in IntracoastalGroupStart(s, i) : TRUE,
                            EndOr(FindFrom(s, ".",
                                      CHOOSE p \in IntracoastalGroupStart(s, i) : TRUE),
                                  Len(s)))]

\* the re.search of extract_intracoastal
IntracoastalSearch(s) ==
    IntracoastalMatch(s, First(1, Len(s), LAMBDA j : IntracoastalGroupStart(s, j) # {}))

EarlierOf(a, b) == IF a = 0 THEN b ELSE IF b = 0 THEN a ELSE IF a < b THEN a ELSE b

HeadTo(desc, c) == IF c = 0 THEN desc ELSE SubSeq(desc, 1, c - 1)

\* re.split(r",|becoming", desc)[0]
SplitHead(desc) ==
    HeadTo(desc, EarlierOf(FindFrom(desc, ",", 1), FindFrom(desc, "becoming", 1)))

RECURSIVE RemoveAll(_, _, _)
\* s.replace(p, ""), one step per occurrence
RemoveAll(s, p, i) ==
    LET a == FindFrom(s, p, i)
    IN  IF a = 0 THEN SubSeq(s, i, Len(s))
        ELSE SubSeq(s, i, a - 1) \o RemoveAll(s, p, a + Len(p))

\* lines 244-256
Severity(desc) ==
    IF Contains(desc, "rough") THEN "rough"
    ELSE IF Contains(desc, "choppy") THEN "choppy"
    ELSE IF Contains(desc, "moderate") THEN "mod chop"
    ELSE IF Contains(desc, "light") THEN "light chop"
    ELSE IF Contains(desc, "smooth") THEN "smooth"
    ELSE desc

\* lines 237-256
IntracoastalField(match) ==
    IF ~match.found THEN ""
    ELSE Severity(strip(RemoveAll(strip(SplitHead(lower(strip(match.group2)))),
                                  "in exposed areas", 1)))

extract_intracoastal(forecast_text) ==
    IntracoastalField(IntracoastalSearch(forecast_text))

(***************************************************************************)
(* The program state                                                       *)
(***************************************************************************)
VARIABLES
    pc,             \* the place the script is at
    now,            \* the wall clock, what datetime.now() returns
    elapsed,        \* hours the clock has advanced since the run started
    zone_idx,       \* position of the zone loop in ZONES.items()
    calls,          \* the zones get_zone_forecast has been called for, in order
    log,            \* what print() has written: the zone and the reason
    text,           \* get_zone_forecast: the fetched text, tags removed
    zone_text,      \* get_zone_forecast: zone_match.group(1)
    lines,          \* get_zone_forecast: zone_text.splitlines()
    caution_flag,
    advisory_flag,
    both_flag,
    no_alert_flag,
    advisory_text,
    target_day,
    day_labels,
    line_idx,       \* position of the line loop in lines
    capture,
    forecast_lines,
    captured,       \* the positions in lines of the lines appended to forecast_lines
    forecast_list,
    df,             \* the DataFrame: its columns and its rows
    csv             \* what to_csv has written

clockVars == <<now, elapsed>>

loopVars == <<zone_idx, calls, log, forecast_list>>

blockVars == <<text, zone_text, lines>>

alertVars == <<caution_flag, advisory_flag, both_flag, no_alert_flag, advisory_text>>

dayVars == <<target_day, day_labels>>

scanVars == <<line_idx, capture, forecast_lines, captured>>

tableVars == <<df, csv>>

vars ==
    <<pc, now, elapsed, zone_idx, calls, log, text, zone_text, lines,
      caution_flag, advisory_flag, both_flag, no_alert_flag, advisory_text,
      target_day, day_labels, line_idx, capture, forecast_lines, captured,
      forecast_list, df, csv>>

zone_id == ZoneOrder[zone_idx]

\* the keys of the dict get_zone_forecast returns
RecordColumns ==
    <<"Zone", "City", "Day", "Forecast", "SmallCraftCaution",
      "SmallCraftAdvisory", "BothMentioned", "NoAlert", "AdvisoryText",
      "Retrieved">>

\* the locals of get_zone_forecast before the call and after it has returned
NoBlock == zone_text = "" /\ lines = <<>>

NoAlerts ==
    /\ caution_flag = 0 /\ advisory_flag = 0 /\ both_flag = 0 /\ no_alert_flag = 0
    /\ advisory_text = ""

NoDay == target_day = "" /\ day_labels = <<>>

NoScan == line_idx = 1 /\ capture = FALSE /\ forecast_lines = <<>> /\ captured = <<>>

NoLocals == text = "" /\ NoBlock /\ NoAlerts /\ NoDay /\ NoScan

DropLocals ==
    /\ text' = "" /\ zone_text' = "" /\ lines' = <<>>
    /\ caution_flag' = 0 /\ advisory_flag' = 0 /\ both_flag' = 0 /\ no_alert_flag' = 0
    /\ advisory_text' = ""
    /\ target_day' = "" /\ day_labels' = <<>>
    /\ line_idx' = 1 /\ capture' = FALSE /\ forecast_lines' = <<>> /\ captured' = <<>>

\* lines 139-142: the call returns to the zone loop, which goes on with the
\* next zone or leaves for line 145
ReturnNone(reason) ==
    /\ log' = Append(log, [zone |-> zone_id, reason |-> reason])
    /\ forecast_list' = forecast_list
    /\ zone_idx' = zone_idx + 1
    /\ pc' = IF zone_idx + 1 > Len(ZoneOrder) THEN "frame" ELSE "fetch"
    /\ DropLocals

ReturnRecord(result) ==
    /\ forecast_list' = Append(forecast_list, result)
    /\ log' = log
    /\ zone_idx' = zone_idx + 1
    /\ pc' = IF zone_idx + 1 > Len(ZoneOrder) THEN "frame" ELSE "fetch"
    /\ DropLocals

(***************************************************************************)
(* The bulletins the fetcher can return                                    *)
(***************************************************************************)
MaxElapsed == 1

\* Thursday 31 December 2026, 11:00
RunStart == [year |-> 2026, month |-> 12, day |-> 31, hour |-> 11]

Preamble == "<html><pre>\nCoastal Waters Forecast\n"

HeaderLine(z) ==
    IF z = "GMZ044" THEN "GMZ042>044-312100-\n" ELSE z \o "-312100-\n"

ScenarioText ==
    "...SMALL CRAFT ADVISORY...N WIND 15 TO 20 KT WITH GUSTS UP TO 25 KT. SEAS 4 TO 6 FEET. INTRACOASTAL WATERS ROUGH IN EXPOSED AREAS."

Bodies ==
    { ".TODAY. " \o ScenarioText
        \o "\n.TONIGHT...N winds 10 kt.\n.FRI...NE winds 10 to 15 kt. Seas 2 to 3 ft.\n$$\n",
      "Small craft should exercise caution.\n.THURSDAY...East winds near 15 knots.\nSeas around 2 feet. Nearshore waters a light chop.\n.THURSDAY NIGHT...East winds 10 knots.\n.FRIDAY...Southeast winds 10 to 15 knots. Seas 2 to 4 feet, occasionally to 6 feet.\n$$\n",
      "...Small Craft Advisory in effect...\nSmall craft should exercise CAUTION.\n.TODAY...W winds 5 to 10 kt. Seas 1 ft.\n.FRI...W winds 5 kt.\n$$\n",
      ".TONIGHT...E winds 5 kt.\n.SAT...E winds 5 kt.\n$$\n" }

\* what response.text can be for a zone: a page with the zone's block, or a
\* page from which the zone has been dropped
Bulletins(z) ==
    {Preamble \o HeaderLine(z) \o b \o "</pre></html>" : b \in Bodies}
        \cup {Preamble \o "AMZ630-312100-\n.TODAY...S winds 5 kt.\n$$\n</pre></html>"}

(***************************************************************************)
(* The steps of the script                                                 *)
(***************************************************************************)
\* Fetch without the try/except of lines 21-29: the error leaves the script
Fetch_Uncaught ==
    /\ pc = "fetch"
    /\ calls' = Append(calls, zone_id)
    /\ \/ /\ pc' = "aborted"
          /\ UNCHANGED <<clockVars, zone_idx, log, forecast_list, blockVars,
                         alertVars, dayVars, scanVars, tableVars>>
       \/ \E response_text \in Bulletins(zone_id) :
            /\ text' = StripTags(response_text)
            /\ pc' = "extract"
            /\ UNCHANGED <<clockVars, zone_idx, log, forecast_list, zone_text,
                           lines, alertVars, dayVars, scanVars, tableVars>>

\* lines 20-29
Fetch ==
    /\ pc = "fetch"
    /\ calls' = Append(calls, zone_id)
    /\ \/ /\ ReturnNone("Error fetching")
          /\ UNCHANGED <<clockVars, tableVars>>
       \/ \E response_text \in Bulletins(zone_id) :
            /\ text' = StripTags(response_text)
            /\ pc' = "extract"
            /\ UNCHANGED <<clockVars, zone_idx, log, forecast_list, zone_text,
                           lines, alertVars, dayVars, scanVars, tableVars>>

\* lines 31-49
ExtractZone ==
    /\ pc = "extract"
    /\ LET zone_match == ZoneSearch(zone_id, text)
       IN  IF ~zone_match.found
           THEN /\ ReturnNone("No forecast found for zone")
                /\ UNCHANGED <<clockVars, calls, tableVars>>
           ELSE /\ zone_text' = zone_match.group1
                /\ lines' = splitlines(zone_match.group1)
                /\ pc' = "detect"
                /\ UNCHANGED <<clockVars, loopVars, text, alertVars, dayVars,
                               scanVars, tableVars>>

\* lines 51-63
DetectAlerts ==
    /\ pc = "detect"
    /\ LET text_lower == lower(zone_text)
       IN  /\ caution_flag' = CautionFlag(text_lower)
           /\ advisory_flag' = AdvisoryFlag(text_lower)
           /\ both_flag' = BothFlag(text_lower)
           /\ no_alert_flag' = NoAlertFlag(CautionFlag(text_lower), AdvisoryFlag(text_lower))
    /\ advisory_text' = AdvisoryText(zone_text)
    /\ pc' = "day"
    /\ UNCHANGED <<clockVars, loopVars, blockVars, dayVars, scanVars, tableVars>>

\* lines 65-79
DetermineDay ==
    /\ pc = "day"
    /\ target_day' = TargetDay(now)
    /\ day_labels' = DayLabels(now)
    /\ forecast_lines' = <<>>
    /\ capture' = FALSE
    /\ line_idx' = 1
    /\ captured' = <<>>
    /\ pc' = "scan"
    /\ UNCHANGED <<clockVars, loopVars, blockVars, alertVars, tableVars>>

\* lines 81-101: one pass of the line loop, or its end
ScanLine ==
    /\ pc = "scan"
    /\ IF line_idx > Len(lines)
       THEN /\ pc' = "combine"
            /\ UNCHANGED scanVars
       ELSE LET line_clean == strip(lines[line_idx])
            IN  IF line_clean = ""
                THEN /\ line_idx' = line_idx + 1
                     /\ UNCHANGED <<pc, capture, forecast_lines, captured>>
                ELSE IF IsDayHeader(line_clean, day_labels)
                THEN /\ capture' = TRUE
                     /\ IF StripLabels(line_clean, day_labels) # ""
                        THEN /\ forecast_lines' =
                                  Append(forecast_lines, StripLabels(line_clean, day_labels))
                             /\ captured' = Append(captured, line_idx)
                        ELSE UNCHANGED <<forecast_lines, captured>>
                     /\ line_idx' = line_idx + 1
                     /\ pc' = pc
                ELSE IF ClosesCapture(capture, line_clean, day_labels)
                THEN /\ pc' = "combine"
                     /\ UNCHANGED scanVars
                ELSE IF capture
                THEN /\ forecast_lines' = Append(forecast_lines, line_clean)
                     /\ captured' = Append(captured, line_idx)
                     /\ line_idx' = line_idx + 1
                     /\ UNCHANGED <<pc, capture>>
                ELSE /\ line_idx' = line_idx + 1
                     /\ UNCHANGED <<pc, capture, forecast_lines, captured>>
    /\ UNCHANGED <<clockVars, loopVars, blockVars, alertVars, dayVars, tableVars>>

\* lines 103-133, and 141-142 of the loop
Combine ==
    /\ pc = "combine"
    /\ IF forecast_lines = <<>>
       THEN ReturnNone("No forecast found on target day")
       ELSE ReturnRecord(
                [Zone |-> zone_id,
                 City |-> capitalize(ZONES[zone_id]),
                 Day |-> target_day,
                 Forecast |-> ForecastText(FullText(forecast_lines)),
                 SmallCraftCaution |-> caution_flag,
                 SmallCraftAdvisory |-> advisory_flag,
                 BothMentioned |-> both_flag,
                 NoAlert |-> no_alert_flag,
                 AdvisoryText |-> advisory_text,
                 \* line 132 reads the clock again; the column holds the
                 \* reading, which the code prints as "%Y-%m-%d %I:%M %p"
                 Retrieved |-> now])
    /\ UNCHANGED <<clockVars, calls, tableVars>>

\* line 145: pd.DataFrame of an empty list has no columns
BuildFrame ==
    /\ pc = "frame"
    /\ df' = [columns |-> IF forecast_list = <<>> THEN <<>> ELSE RecordColumns,
              rows |-> forecast_list]
    /\ pc' = "apply"
    /\ UNCHANGED <<clockVars, loopVars, blockVars, alertVars, dayVars, scanVars, csv>>

HasColumn(frame, name) == \E k \in 1..Len(frame.columns) : frame.columns[k] = name

\* lines 259-261: df["Forecast"] raises KeyError when the column is missing,
\* and nothing catches it
ApplyExtraction ==
    /\ pc = "apply"
    /\ IF ~HasColumn(df, "Forecast")
       THEN /\ pc' = "aborted"
            /\ df' = df
       ELSE /\ df' = [columns |-> df.columns \o <<"Winds", "Seas", "Intracoastal">>,
                      rows |-> [k \in 1..Len(df.rows) |->
                          [Zone |-> df.rows[k].Zone,
                           City |-> df.rows[k].City,
                           Day |-> df.rows[k].Day,
                           Forecast |-> df.rows[k].Forecast,
                           SmallCraftCaution |-> df.rows[k].SmallCraftCaution,
                           SmallCraftAdvisory |-> df.rows[k].SmallCraftAdvisory,
                           BothMentioned |-> df.rows[k].BothMentioned,
                           NoAlert |-> df.rows[k].NoAlert,
                           AdvisoryText |-> df.rows[k].AdvisoryText,
                           Retrieved |-> df.rows[k].Retrieved,
                           Winds |-> extract_wind_field(df.rows[k].Forecast),
                           Seas |-> extract_seas_field(df.rows[k].Forecast),
                           Intracoastal |-> extract_intracoastal(df.rows[k].Forecast)]]]
            /\ pc' = "clean"
    /\ UNCHANGED <<clockVars, loopVars, blockVars, alertVars, dayVars, scanVars, csv>>

\* lines 263-265
CleanUp ==
    /\ pc = "clean"
    /\ df' = [df EXCEPT !.rows =
                 [k \in 1..Len(df.rows) |->
                     [df.rows[k] EXCEPT
                         !.Seas = strip(CollapseWs(df.rows[k].Seas)),
                         !.Intracoastal = strip(CollapseWs(df.rows[k].Intracoastal))]]]
    /\ pc' = "save"
    /\ UNCHANGED <<clockVars, loopVars, blockVars, alertVars, dayVars, scanVars, csv>>

\* lines 267-276
Save ==
    /\ pc = "save"
    /\ csv' = [written |-> TRUE, rows |-> df.rows]
    /\ pc' = "done"
    /\ UNCHANGED <<clockVars, loopVars, blockVars, alertVars, dayVars, scanVars, df>>

\* now.hour + 1, into the next day after 23
NextHour(t) ==
    IF t.hour < 23 THEN [t EXCEPT !.hour = t.hour + 1]
    ELSE [PlusOneDay(t) EXCEPT !.hour = 0]

\* an hour passes while the zone loop runs
Tick ==
    /\ pc \in {"fetch", "extract", "detect", "day", "scan", "combine"}
    /\ elapsed < MaxElapsed
    /\ now' = NextHour(now)
    /\ elapsed' = elapsed + 1
    /\ UNCHANGED <<pc, loopVars, blockVars, alertVars, dayVars, scanVars, tableVars>>

NoTable == df = [columns |-> <<>>, rows |-> <<>>] /\ csv = [written |-> FALSE, rows |-> <<>>]

Init ==
    /\ pc = "fetch"
    /\ now = RunStart
    /\ elapsed = 0
    /\ zone_idx = 1
    /\ calls = <<>>
    /\ log = <<>>
    /\ forecast_list = <<>>
    /\ NoLocals
    /\ NoTable

Next ==
    \/ Fetch
    \/ ExtractZone
    \/ DetectAlerts
    \/ DetermineDay
    \/ ScanLine
    \/ Combine
    \/ BuildFrame
    \/ ApplyExtraction
    \/ CleanUp
    \/ Save
    \/ Tick

Spec == Init /\ [][Next]_vars

(***************************************************************************)
(* The run: what the zone loop and the steps after it guarantee            *)
(***************************************************************************)
AfterLoop == {"frame", "apply", "clean", "save", "done", "aborted"}

\* the zones print() has reported as failed
Logged == {log[k].zone : k \in 1..Len(log)}

ZonesOf(list) == [k \in 1..Len(list) |-> list[k].Zone]

NotLogged(z) == z \notin Logged

\* C2: a run in which every configured zone fails goes through the steps
\* after the zone loop without aborting, and writes an empty output.
C2_EmptyRunCompletes == forecast_list = <<>> => pc # "aborted"

\* C3: the loop calls get_zone_forecast for every configured zone, in the
\* order of ZONES, whatever the earlier zones did; each finished zone has
\* either printed a failure or contributed one record, never both; and
\* forecast_list holds the records of the zones that did not fail, in the
\* order of ZONES.
C3_LoopCoversZones ==
    /\ calls = SubSeq(ZoneOrder, 1, Len(calls))
    /\ Len(calls) = IF pc = "fetch" THEN zone_idx - 1
                    ELSE IF pc \in AfterLoop THEN Len(ZoneOrder)
                    ELSE zone_idx
    /\ pc \in AfterLoop => zone_idx = Len(ZoneOrder) + 1
    /\ Len(log) + Len(forecast_list) = zone_idx - 1
    /\ ZonesOf(forecast_list)
         = SelectSeq(SubSeq(ZoneOrder, 1, zone_idx - 1), NotLogged)

\* the first zone failed and the second one still gave its record
C3_Witness ==
    /\ pc = "done"
    /\ Logged = {ZoneOrder[1]}
    /\ ZonesOf(csv.rows) = <<ZoneOrder[2]>>

\* C5: the record assembled from the scenario's period text has
\* SmallCraftAdvisory = 1, SmallCraftCaution = 0, Winds = "N 15-20 (25) kts",
\* Seas = "4-6 ft" and Intracoastal = "rough".
C5_RoundTrip ==
    pc = "done" =>
        \A k \in 1..Len(csv.rows) :
            csv.rows[k].Forecast = ScenarioText =>
                /\ csv.rows[k].SmallCraftAdvisory = 1
                /\ csv.rows[k].SmallCraftCaution = 0
                /\ csv.rows[k].Winds = "N 15-20 (25) kts"
                /\ csv.rows[k].Seas = "4-6 ft"
                /\ csv.rows[k].Intracoastal = "rough"

\* C8: all the records of one run carry the same Day tag, also when the
\* clock advances between one zone and the next.
C8_OneTagPerRun ==
    \A i, j \in 1..Len(forecast_list) : forecast_list[i].Day = forecast_list[j].Day

(***************************************************************************)
(* Parts of a call, started from the states a run brings them to           *)
(***************************************************************************)
\* the loop inside its k-th call, the zones before it having failed to fetch
LoopAt(k) ==
    /\ zone_idx = k
    /\ calls = SubSeq(ZoneOrder, 1, k)
    /\ log = [i \in 1..(k - 1) |-> [zone |-> ZoneOrder[i], reason |-> "Error fetching"]]
    /\ forecast_list = <<>>
    /\ NoTable

(* ---- the zone block (lines 31-49) ---- *)
ZonePrefixes == {"", "FZUS52 KMFL 312100\n", "Synopsis for "}

ZoneSuffixes == {"", "-312100-"}

ZoneRests ==
    { "", "\n", "\n$\n", "\n$$\n",
      "\n.TODAY...N winds 5 kt.",
      "\n.TODAY...N winds 5 kt.\n$$\n",
      "\nCost $5 today.\n.TODAY...N winds 5 kt.\n$$\nAMZ630-312100-\n.TODAY...S winds 5 kt.\n$$\n" }

ZoneTexts(z) ==
    {a \o h \o b \o c : a \in ZonePrefixes, h \in ZoneHeaders(z),
                        b \in ZoneSuffixes, c \in ZoneRests}

InitZone ==
    /\ pc = "extract"
    /\ now = RunStart
    /\ elapsed = 0
    /\ \E k \in 1..Len(ZoneOrder) : LoopAt(k) /\ text \in ZoneTexts(ZoneOrder[k])
    /\ NoBlock /\ NoAlerts /\ NoDay /\ NoScan

NextZone == ExtractZone

SpecZone == InitZone /\ [][NextZone]_vars

\* C4: for every page that holds the zone's header, the search finds a
\* block, the block is strictly shorter than the page, and no line of the
\* block is the end marker "$".
C4_BlockShorterNoMarker ==
    pc # "extract" =>
        /\ pc = "detect"
        /\ Len(zone_text) < Len(text)
        /\ \A k \in 1..Len(lines) : lines[k] # "$"

(* ---- the alert flags (lines 51-63) ---- *)
MaxAlertParts == 2

AlertParts ==
    { "Small craft should exercise caution.\n", "CAUTION ", "Precautionary ",
      "...Small Craft ADVISORY in effect...\n", "advisory ", "Advisories ",
      "cau", "tion ", "advis", "Winds light.\n" }

RECURSIVE AlertTexts(_)
AlertTexts(n) ==
    IF n = 0 THEN {""}
    ELSE AlertTexts(n - 1) \cup {a \o b : a \in AlertParts, b \in AlertTexts(n - 1)}

InitAlert ==
    /\ pc = "extract"
    /\ now = RunStart
    /\ elapsed = 0
    /\ LoopAt(1)
    /\ text \in {HeaderLine(ZoneOrder[1]) \o a
                    \o "\n.TODAY...N winds 5 kt.\n.TONIGHT...N winds 5 kt.\n$$\n" :
                 a \in AlertTexts(MaxAlertParts)}
    /\ NoBlock /\ NoAlerts /\ NoDay /\ NoScan

NextAlert == ExtractZone \/ DetectAlerts \/ DetermineDay \/ ScanLine \/ Combine

SpecAlert == InitAlert /\ [][NextAlert]_vars

Flags == {0, 1}

\* C1: in every record the four flags are 0 or 1, BothMentioned is 1 exactly when
\* SmallCraftCaution and SmallCraftAdvisory are both 1, and NoAlert is 1
\* exactly when both are 0; the same holds of the flags of the call in
\* progress once they are computed.
C1_FlagsConsistent ==
    /\ \A k \in 1..Len(forecast_list) :
         LET r == forecast_list[k]
         IN  /\ {r.SmallCraftCaution, r.SmallCraftAdvisory, r.BothMentioned, r.NoAlert} \subseteq Flags
             /\ r.BothMentioned = 1 <=> (r.SmallCraftCaution = 1 /\ r.SmallCraftAdvisory = 1)
             /\ r.NoAlert = 1 <=> (r.SmallCraftCaution = 0 /\ r.SmallCraftAdvisory = 0)
    /\ pc \in {"day", "scan", "combine"} =>
         /\ {caution_flag, advisory_flag, both_flag, no_alert_flag} \subseteq Flags
         /\ both_flag = 1 <=> (caution_flag = 1 /\ advisory_flag = 1)
         /\ no_alert_flag = 1 <=> (caution_flag = 0 /\ advisory_flag = 0)

\* a record of a block that mentions the advisory only
C1_Witness ==
    \E k \in 1..Len(forecast_list) :
        /\ forecast_list[k].SmallCraftAdvisory = 1
        /\ forecast_list[k].SmallCraftCaution = 0
        /\ forecast_list[k].BothMentioned = 0
        /\ forecast_list[k].NoAlert = 0

(* ---- the period of the day (lines 65-75) ---- *)
FirstYear == RunStart.year + 1

MaxYears == 2

ClockReadings ==
    {[year |-> y, month |-> m, day |-> d, hour |-> h] :
        <<y, m, d, h>> \in
            {q \in (FirstYear..(FirstYear + MaxYears - 1)) \X (1..12) \X (1..31) \X (0..23) :
                q[3] <= DaysInMonth(q[1], q[2])}}

PeriodPage ==
    Preamble \o HeaderLine(ZoneOrder[1])
        \o ".TODAY...N winds 5 kt.\n.TONIGHT...N winds 5 kt.\n$$\n</pre></html>"

\* the locals of a call that has found the block of its page
BlockFound(page) ==
    /\ text = StripTags(page)
    /\ zone_text = ZoneSearch(zone_id, text).group1
    /\ lines = splitlines(zone_text)

\* the locals of a call that has set the alert flags of its block
AlertsSet ==
    /\ caution_flag = CautionFlag(lower(zone_text))
    /\ advisory_flag = AdvisoryFlag(lower(zone_text))
    /\ both_flag = BothFlag(lower(zone_text))
    /\ no_alert_flag = NoAlertFlag(caution_flag, advisory_flag)
    /\ advisory_text = AdvisoryText(zone_text)

\* the same locals for a block that names neither alert
QuietBlock ==
    /\ caution_flag = 0 /\ advisory_flag = 0 /\ both_flag = 0 /\ no_alert_flag = 1
    /\ advisory_text = ""

InitPeriod ==
    /\ pc = "day"
    /\ elapsed = 0
    /\ LoopAt(1)
    /\ BlockFound(PeriodPage)
    /\ AlertsSet
    /\ NoDay /\ NoScan
    /\ now \in ClockReadings

NextPeriod == DetermineDay

SpecPeriod == InitPeriod /\ [][NextPeriod]_vars

UpperAbbr == <<"MON", "TUE", "WED", "THU", "FRI", "SAT", "SUN">>

UpperName ==
    <<"MONDAY", "TUESDAY", "WEDNESDAY", "THURSDAY", "FRIDAY", "SATURDAY", "SUNDAY">>

\* C7: the tag and the labels depend on the clock reading only: in the hours
\* 0..11 the tag is "Today" and the labels are TODAY and the two names of
\* the reading's weekday; in the hours 12..23 the tag is "Tomorrow" and the
\* labels are the two names of the weekday after it, Monday following
\* Sunday; the readings of 11 and of 12 o'clock of one day get different tags.
C7_TagFollowsClock ==
    pc = "scan" =>
        LET wd == weekday(now)
            next == (wd + 1) % 7
        IN  /\ now.hour \in 0..11 =>
                 /\ target_day = "Today"
                 /\ day_labels = <<"TODAY", UpperAbbr[wd + 1], UpperName[wd + 1]>>
            /\ now.hour \in 12..23 =>
                 /\ target_day = "Tomorrow"
                 /\ day_labels = <<UpperAbbr[next + 1], UpperName[next + 1]>>
            /\ weekday(PlusOneDay(now)) = next
            /\ TargetDay([now EXCEPT !.hour = 11]) # TargetDay([now EXCEPT !.hour = 12])

\* noon of a Sunday that is the last day of a year: tomorrow is a Monday
C7_Witness ==
    /\ pc = "scan"
    /\ now.month = 12 /\ now.day = 31 /\ now.hour = 12
    /\ weekday(now) = 6
    /\ target_day = "Tomorrow"
    /\ day_labels = <<"MON", "MONDAY">>

(* ---- the line scan (lines 77-101) ---- *)
MaxScanLines == 3

ScanLinePool ==
    { ".TODAY...N winds 5 kt.", ".THURSDAY...N WINDS 10 KT.", ".THU...",
      ".TONIGHT...Calm.", ".FRI...S winds 5 kt.", "Seas 2 ft.", "  " }

LineSeqs == UNION {[1..n -> ScanLinePool] : n \in 0..MaxScanLines}

\* the morning and the afternoon of the day of the run
ScanClocks == {RunStart, NextHour(RunStart)}

InitScan ==
    /\ pc = "scan"
    /\ elapsed = 0
    /\ LoopAt(1)
    /\ \E ls \in LineSeqs : BlockFound(HeaderLine(ZoneOrder[1]) \o join("\n", ls))
    /\ QuietBlock
    /\ NoScan
    /\ \E t \in ScanClocks :
         now = t /\ target_day = TargetDay(t) /\ day_labels = DayLabels(t)

NextScan == ScanLine

SpecScan == InitScan /\ [][NextScan]_vars

CleanLine(k) == strip(lines[k])

HeaderAt(k) == IsDayHeader(CleanLine(k), day_labels)

\* a line of another period: it starts with "." and with no acceptable label
OtherPeriodAt(k) == startswith(CleanLine(k), ".") /\ ~HeaderAt(k)

FirstHeader == First(1, Len(lines), HeaderAt)

FirstCloser ==
    IF FirstHeader = 0 THEN 0 ELSE First(FirstHeader + 1, Len(lines), OtherPeriodAt)

\* the last line of the run that starts at the first header
RunEnd ==
    IF FirstHeader = 0 THEN 0
    ELSE IF FirstCloser = 0 THEN Len(lines) ELSE FirstCloser - 1

\* the lines the scan has gone through
Scanned == IF pc = "scan" THEN line_idx - 1 ELSE Len(lines)

\* what a line of the run leaves to keep
Kept(k) ==
    IF HeaderAt(k) THEN StripLabels(CleanLine(k), day_labels) ELSE CleanLine(k)

LeavesText(k) == Kept(k) # ""

RunSoFar ==
    LET hi == IF RunEnd < Scanned THEN RunEnd ELSE Scanned
    IN  IF FirstHeader = 0 THEN <<>>
        ELSE SelectSeq([n \in 1..(hi - FirstHeader + 1) |-> FirstHeader + n - 1],
                       LeavesText)

\* the labels of the period that was not selected
OtherLabels ==
    IF target_day = "Today" THEN DayLabels([now EXCEPT !.hour = 12])
    ELSE DayLabels([now EXCEPT !.hour = 0])

\* C10: whatever the lines are, the captured lines are the lines of the run
\* that starts at the first acceptable header and ends before the first
\* later line that starts with "." and with no acceptable label, blank lines
\* and a header with nothing after its label left out: nothing before that
\* header, not the closing line, nothing after it; and no captured line
\* starts with a header of the other period.
C10_CaptureWindow ==
    pc \in {"scan", "combine"} =>
        /\ captured = RunSoFar
        /\ Len(forecast_lines) = Len(captured)
        /\ \A n \in 1..Len(captured) :
             /\ forecast_lines[n] = Kept(captured[n])
             /\ FirstHeader <= captured[n]
             /\ FirstCloser # 0 => captured[n] < FirstCloser
             /\ ~IsDayHeader(CleanLine(captured[n]), OtherLabels)
        /\ capture = (FirstHeader # 0 /\ FirstHeader <= Scanned)
        /\ (pc = "combine" /\ line_idx <= Len(lines)) => line_idx = FirstCloser

\* the scan left at a closing line that has a line of text after it
C10_Witness ==
    /\ pc = "combine"
    /\ line_idx < Len(lines)
    /\ captured # <<>>
    /\ \A n \in 1..Len(captured) : captured[n] < line_idx
    /\ CleanLine(line_idx + 1) = "Seas 2 ft."

\* C9: of a line that opens capture, written "." L "..." rest with L any of
\* the acceptable labels, what is kept is the trimmed rest: the whole label
\* is gone, also when L is the full name of the weekday.
C9_WholeLabelStripped ==
    \A n \in 1..Len(captured) :
        \A k \in 1..Len(day_labels) :
            LET line_clean == CleanLine(captured[n])
                L == day_labels[k]
            IN  startswith(line_clean, "." \o L) =>
                    forecast_lines[n] =
                        strip(SubSeq(line_clean, SkipDots(line_clean, Len(L) + 2),
                                     Len(line_clean)))

(* ---- the extracted fields (lines 147-265) ---- *)
WindPhrases ==
    { "N WIND 15 TO 20 KT WITH GUSTS UP TO 25 KT.",
      "northeast winds 10 to 15 knots.",
      "East winds near 15 knots.",
      "W winds 5 to 10 kt.",
      "North to northeast winds around 15 knots with gusts to 30 knots.",
      "Winds light and variable." }

SeasPhrases ==
    { "", " SEAS 4 TO 6 FEET.", " Seas 2 to 3 ft.", " Seas around 2 feet.",
      " Seas 2 to 4 feet, occasionally to 6 feet." }

WatersPhrases ==
    { "", " INTRACOASTAL WATERS ROUGH IN EXPOSED AREAS.",
      " Nearshore waters a light chop.",
      " Intracoastal waters will be smooth, becoming choppy." }

ForecastTexts ==
    {w \o s \o i : w \in WindPhrases, s \in SeasPhrases, i \in WatersPhrases}

\* the run after its loop: the first zone gave a record, the others failed
InitFields ==
    /\ pc = "frame"
    /\ now = RunStart
    /\ elapsed = 0
    /\ zone_idx = Len(ZoneOrder) + 1
    /\ calls = ZoneOrder
    /\ log = [i \in 1..(Len(ZoneOrder) - 1) |->
                 [zone |-> ZoneOrder[i + 1], reason |-> "Error fetching"]]
    /\ \E f \in ForecastTexts :
         forecast_list =
            <<[Zone |-> ZoneOrder[1],
               City |-> capitalize(ZONES[ZoneOrder[1]]),
               Day |-> TargetDay(RunStart),
               Forecast |-> f,
               SmallCraftCaution |-> 0,
               SmallCraftAdvisory |-> 0,
               BothMentioned |-> 0,
               NoAlert |-> 1,
               AdvisoryText |-> "",
               Retrieved |-> RunStart]>>
    /\ NoLocals
    /\ NoTable

NextFields == BuildFrame \/ ApplyExtraction \/ CleanUp \/ Save

SpecFields == InitFields /\ [][NextFields]_vars

\* C6: normalize_wind gives the same string when it is run again on its own
\* output, for every wind phrase the extraction hands to it.
C6_NormalizeIdempotent ==
    pc \in {"clean", "save", "done"} =>
        \A k \in 1..Len(df.rows) :
            LET match == WindSearch(df.rows[k].Forecast)
            IN  match.found =>
                    normalize_wind(normalize_wind(match.group1))
                        = normalize_wind(match.group1)

====
